---- MODULE Spec2Model ----
(***************************************************************************)
(* Model of the clipme desktop client's orchestration layer:               *)
(*   - the job session manager of App.tsx (handleDownload, the             *)
(*     'download-progress' listener),                                      *)
(*   - the segment model (Timeline, EditableTime, MultiClipTimeline),      *)
(*   - the quality gate of the quality <select> of App.tsx.                *)
(* The media engine (Tauri commands) is the environment: every `await` of  *)
(* a handler is a point where the handler is suspended and the engine      *)
(* settles the call at a time of its own choosing.                         *)
(***************************************************************************)
EXTENDS Integers, Sequences, FiniteSets, TLC

\* ---------------------------------------------------------------- bounds
\* Date.now() values the model lets the wall clock reach.
MaxClock == 2
\* handleDownload invocations (button presses) in one behaviour.
MaxCalls == 3
\* Segment ids generated in one behaviour.
MaxSegIds == 6
\* Drags of segment sliders in one behaviour.
MaxEdits == 1
\* Segment removals in one behaviour.
MaxRemoves == 1
\* handleUrlSubmit invocations (source submissions) in one behaviour.
MaxFetches == 2
\* The largest number typed into the seconds field of an EditableTime.
MaxTypedSecs == 14
\* The largest number typed into the minutes field of an EditableTime.
MaxTypedMins == 1
\* handleDownload invocations in one behaviour of the history specification.
MaxHistoryCalls == 2

\* ------------------------------------------------------------- constants
\* Percent values the engine reports in 'download-progress' payloads.
Percents == {50, 100}

NoProgress == [some |-> FALSE, id |-> 0, percent |-> 0]
NoToast == [message |-> "", type |-> "none"]
\* What the error of a rejected engine call looks like to the catch block:
\* whether it is a string, and whether its text contains 'cancelled'.
ErrorValue(isString, mentions) == [isString |-> isString, mentions |-> mentions]
NoError == ErrorValue(FALSE, FALSE)
\* How an engine call settled: its kind, the error value of a rejection and
\* the output paths of a success.
Outcome(kind, err, paths) == [kind |-> kind, err |-> err, paths |-> paths]
NoOutcome == Outcome("", NoError, <<>>)
NoStep == [op |-> "init", n |-> 0, id |-> 0, pct |-> 0, res |-> NoOutcome]

\* Durations (seconds) of the sources of the model: one shorter and one
\* longer than the default segment window.
Durations == {3, 12}

\* Metadata as get_video_metadata returns it, and the null of videoMeta.
Meta(d, fmts) == [loaded |-> TRUE, title |-> "t", duration |-> d, formats |-> fmts]
NoMeta == [loaded |-> FALSE, title |-> "", duration |-> 0, formats |-> <<>>]
\* The metadata of the source the session specification starts with.
LoadedMeta == Meta(12, <<"1080p", "720p", "480p">>)

VARIABLES
    now,                 \* Date.now(): the wall clock in milliseconds
    videoMeta,           \* useState<VideoMetadata | null>
    url,                 \* useState('')
    downloading,         \* useState(false)
    progress,            \* useState<DownloadProgress | null>
    downloadSessionRef,  \* useRef(0)
    askForPath,          \* useState(false)
    toast,               \* useState<{message, type} | null>
    calls,               \* suspended handleDownload invocations, each at an await
    nCalls,              \* handleDownload invocations so far
    issued,              \* session ids in the order Date.now() produced them
    requests,            \* extraction requests the engine has received so far
    cancelled,           \* sessions whose cancel the engine has acknowledged
    closures,            \* per handleDownload invocation, the render it closed over
    invoked,             \* the engine commands the client has invoked so far
    step,                \* the handler step taken last
    isPro,               \* useState(false)
    multiClipEnabled,    \* useState(false)
    range,               \* useState<[number, number]>
    segments,            \* useState<ClipSegment[]>
    nextSegId,           \* the next fresh segment id
    nEdits,              \* drags of segment sliders so far
    nRemoves,            \* segment removals so far
    selectedQuality,     \* useState('720p')
    isLocalFile,         \* useState(false)
    originalResolution,  \* useState<string | null>, "" for null
    loading,             \* useState(false)
    fetches,             \* suspended handleUrlSubmit invocations
    nFetches,            \* handleUrlSubmit invocations so far
    preferredQuality,    \* useState<string | null>, "" for null
    latestSource,        \* the url handleUrlSubmit was called with last, "" for none
    user,                \* AuthContext user: "none", or "keyed" (prefs hold a licenseKey)
    syncLock,            \* useRef(false): a verify_license of the sync effect is pending
    logoutPc             \* handleLogout: "idle", "deleting" (logout()), "clearing"

sessionVars == <<now, videoMeta, url, downloading, progress, downloadSessionRef,
                 askForPath, toast, calls, nCalls, issued, requests, cancelled,
                 closures, invoked, step>>

\* The session state apart from the toast and the last step.
jobVars == <<now, videoMeta, url, downloading, progress, downloadSessionRef,
             askForPath, calls, nCalls, issued, requests, cancelled, closures, invoked>>

\* The session state that no segment operation can reach: everything of
\* jobVars but the renders held by handleDownload invocations.
flightVars == <<now, videoMeta, url, downloading, progress, downloadSessionRef,
                askForPath, calls, nCalls, issued, requests, cancelled, invoked>>

segVars == <<isPro, multiClipEnabled, range, segments, nextSegId, nEdits, nRemoves>>

gateVars == <<selectedQuality, isLocalFile, originalResolution, loading, fetches, nFetches,
              preferredQuality>>

auxVars == <<latestSource, user, syncLock, logoutPc>>

vars == <<sessionVars, segVars, gateVars, auxVars>>

\* ------------------------------------------------------------- helpers
Toast(m, t) == [message |-> m, type |-> t]
Step(op, n, id, pct) == [op |-> op, n |-> n, id |-> id, pct |-> pct, res |-> NoOutcome]
\* An engine command the client invokes: its name, the handleDownload
\* invocation that sent it, its position among the commands of one loop, the
\* session id current when it was sent, and its argument object.
Cmd(cmd, n, i, at, args) == [cmd |-> cmd, n |-> n, i |-> i, at |-> at, args |-> args]
\* invoke('cancel_download'): no argument object.
NoArgs == <<>>
\* The state of the render whose handleDownload is invoked.
Render ==
    [url |-> url, title |-> videoMeta.title, quality |-> selectedQuality, pro |-> isPro,
     multi |-> multiClipEnabled, segments |-> segments, range |-> range,
     local |-> isLocalFile, orig |-> originalResolution]
\* The cancel branch reads nothing of its render.
NoRender ==
    [url |-> "", title |-> "", quality |-> "", pro |-> FALSE, multi |-> FALSE,
     segments |-> <<>>, range |-> <<0, 0>>, local |-> FALSE, orig |-> ""]
\* The condition of the multi-clip branch.
IsMulti(cl) == cl.multi /\ cl.pro /\ Len(cl.segments) > 0
\* An extraction request built from the state of the latest render instead
\* of the render of its own invocation.
DownloadCmdOfLatestRender(n, id, cl, at) ==
    IF IsMulti(Render)
    THEN Cmd("download_multi_clip", n, 0, at,
             [url |-> url, segments |-> segments, quality |-> selectedQuality, id |-> id])
    ELSE Cmd("download_clip", n, 0, at,
             [url |-> url, start |-> range[1], end |-> range[2],
              quality |-> selectedQuality, id |-> id])

\* The extraction request of a submission.
DownloadCmd(n, id, cl, at) ==
    IF IsMulti(cl)
    THEN Cmd("download_multi_clip", n, 0, at,
             [url |-> cl.url, segments |-> cl.segments, quality |-> cl.quality, id |-> id])
    ELSE Cmd("download_clip", n, 0, at,
             [url |-> cl.url, start |-> cl.range[1], end |-> cl.range[2],
              quality |-> cl.quality, id |-> id])
\* The filePath a single-clip history item is given.
SinglePath(id) == <<"clip", id>>
\* The results of the engine for the job of a render: one path per segment
\* for a multi-clip job, one path (named as the client expects or otherwise)
\* for a single clip.
EnginePaths(cl, id) ==
    IF IsMulti(cl)
    THEN {[i \in 1..Len(cl.segments) |-> <<"clip", id, i>>]}
    ELSE {<<SinglePath(id)>>, <<<<"file", id>>>>}
\* The ways the extraction request of a render can settle.
Outcomes(cl, id) ==
    {Outcome("ok", NoError, ps) : ps \in EnginePaths(cl, id)}
    \cup {Outcome(k, ErrorValue(st, m), <<>>) :
             k \in {"cancelled", "failed"}, st \in BOOLEAN, m \in BOOLEAN}
\* History items built from the segments and the range of the latest render.
HistoryItemsOfLatestRender(n, id, cl, results, at) ==
    IF IsMulti(cl)
    THEN {Cmd("save_download_history", n, i, at,
              [url |-> cl.url,
               duration |-> segments[i].end - segments[i].start,
               quality |-> cl.quality,
               filePath |-> IF i <= Len(results) THEN results[i] ELSE <<"clip", i>>]) :
             i \in 1..Len(segments)}
    ELSE IF cl.pro
    THEN {Cmd("save_download_history", n, 1, at,
              [url |-> cl.url, duration |-> range[2] - range[1],
               quality |-> cl.quality, filePath |-> SinglePath(id)])}
    ELSE {}

\* The save_download_history commands after a successful job.
HistoryItems(n, id, cl, results, at) ==
    IF IsMulti(cl)
    THEN {Cmd("save_download_history", n, i, at,
              [url |-> cl.url,
               duration |-> cl.segments[i].end - cl.segments[i].start,
               quality |-> cl.quality,
               filePath |-> IF i <= Len(results) THEN results[i] ELSE <<"clip", i>>]) :
             i \in 1..Len(cl.segments)}
    ELSE IF cl.pro
    THEN {Cmd("save_download_history", n, 1, at,
              [url |-> cl.url, duration |-> cl.range[2] - cl.range[1],
               quality |-> cl.quality, filePath |-> SinglePath(id)])}
    ELSE {}
Call(n, pc, id, sess) == [n |-> n, pc |-> pc, id |-> id, sess |-> sess]
CallsAt(pc) == {c \in calls : c.pc = pc}
\* The invocation number of the latest submission (0 when there is none).
LastSubmit == IF issued = <<>> THEN 0 ELSE issued[Len(issued)].n

\* ------------------------------------------------------------- session
SessionInit ==
    /\ now = 1
    /\ videoMeta = LoadedMeta
    /\ url = "u1"
    /\ downloading = FALSE
    /\ progress = NoProgress
    /\ downloadSessionRef = 0
    /\ askForPath = FALSE
    /\ toast = NoToast
    /\ calls = {}
    /\ nCalls = 0
    /\ issued = <<>>
    /\ requests = {}
    /\ cancelled = {}
    /\ closures = <<>>
    /\ invoked = {}
    /\ step = NoStep
    /\ isPro = FALSE
    /\ multiClipEnabled = FALSE
    /\ range = <<0, LoadedMeta.duration>>
    /\ segments = <<>>
    /\ nextSegId = 1
    /\ nEdits = 0
    /\ nRemoves = 0
    /\ selectedQuality = "720p"
    /\ isLocalFile = FALSE
    /\ originalResolution = ""
    /\ loading = FALSE
    /\ fetches = {}
    /\ nFetches = 0
    /\ preferredQuality = ""
    /\ latestSource = ""
    /\ user = "none"
    /\ syncLock = FALSE
    /\ logoutPc = "idle"

\* Time passes: Date.now() is the wall clock in whole milliseconds.
Tick ==
    /\ UNCHANGED <<segVars, gateVars, auxVars>>
    /\ now < MaxClock
    /\ now' = now + 1
    /\ step' = Step("tick", 0, 0, 0)
    /\ UNCHANGED <<videoMeta, url, downloading, progress, downloadSessionRef,
                   askForPath, toast, calls, nCalls, issued, requests, cancelled,
                   closures, invoked>>

\* The "Ask each time" checkbox.
SetAskForPath ==
    /\ UNCHANGED <<segVars, gateVars, auxVars>>
    /\ askForPath' = ~askForPath
    /\ step' = Step("askForPath", 0, 0, 0)
    /\ UNCHANGED <<now, videoMeta, url, downloading, progress, downloadSessionRef,
                   toast, calls, nCalls, issued, requests, cancelled, closures, invoked>>

\* A listener that consumes every payload, whatever its id.
ListenerAppliesAlways(payloadId, ref) == TRUE

\* The listener of 'download-progress': the payload replaces the snapshot
\* when its id is the current session id.
ListenerApplies(payloadId, ref) == payloadId = ref

\* The engine emits a progress event for a request it has received.
DownloadProgress(r, pct) ==
    /\ UNCHANGED <<segVars, gateVars, auxVars>>
    /\ r \in requests
    /\ progress' = IF ListenerApplies(r.id, downloadSessionRef)
                   THEN [some |-> TRUE, id |-> r.id, percent |-> pct]
                   ELSE progress
    /\ step' = Step("progress", r.n, r.id, pct)
    /\ UNCHANGED <<now, videoMeta, url, downloading, downloadSessionRef,
                   askForPath, toast, calls, nCalls, issued, requests, cancelled,
                   closures, invoked>>

\* handleDownload up to its first await (or its return).
HandleDownload ==
    /\ UNCHANGED <<segVars, gateVars, auxVars>>
    /\ nCalls < MaxCalls
    /\ videoMeta.loaded /\ url # ""
    /\ nCalls' = nCalls + 1
    /\ closures' = Append(closures, IF downloading THEN NoRender ELSE Render)
    /\ IF downloading
       THEN \* cancel branch: invoke('cancel_download') carries no argument
            /\ progress' = NoProgress
            /\ toast' = Toast("Cancelling...", "info")
            /\ calls' = calls \cup {Call(nCalls + 1, "cancel", downloadSessionRef, LastSubmit)}
            /\ invoked' = invoked \cup
                   {Cmd("cancel_download", nCalls + 1, 0, downloadSessionRef, NoArgs)}
            /\ step' = Step("cancel", nCalls + 1, downloadSessionRef, 0)
            /\ UNCHANGED <<downloading, downloadSessionRef, issued, requests>>
       ELSE \* a new session
            /\ downloadSessionRef' = now
            /\ downloading' = TRUE
            /\ progress' = [some |-> TRUE, id |-> now, percent |-> 0]
            /\ issued' = Append(issued, [n |-> nCalls + 1, id |-> now])
            /\ step' = Step("submit", nCalls + 1, now, 0)
            /\ IF askForPath
               THEN /\ calls' = calls \cup {Call(nCalls + 1, "dialog", now, nCalls + 1)}
                    /\ UNCHANGED <<requests, invoked>>
               ELSE /\ calls' = calls \cup {Call(nCalls + 1, "job", now, nCalls + 1)}
                    /\ requests' = requests \cup {[n |-> nCalls + 1, id |-> now]}
                    /\ invoked' = invoked \cup {DownloadCmd(nCalls + 1, now, Render, now)}
            /\ UNCHANGED toast
    /\ UNCHANGED <<now, videoMeta, url, askForPath, cancelled>>

\* The folder dialog of a submission settles: a folder, nothing, or an error.
DialogSettles(c, result) ==
    /\ UNCHANGED <<segVars, gateVars, auxVars>>
    /\ c \in CallsAt("dialog")
    /\ IF result = "selected"
       THEN \* await invoke('set_download_path')
            /\ calls' = (calls \ {c}) \cup {[c EXCEPT !.pc = "setpath"]}
            /\ UNCHANGED <<downloading, progress, toast>>
       ELSE /\ calls' = calls \ {c}
            /\ downloading' = FALSE
            /\ progress' = NoProgress
            /\ toast' = IF result = "error"
                        THEN Toast("Failed to select folder", "error") ELSE toast
    /\ step' = Step("dialog", c.n, c.id, 0)
    /\ UNCHANGED <<now, videoMeta, url, downloadSessionRef, askForPath, nCalls,
                   issued, requests, cancelled, closures, invoked>>

\* set_download_path settles; on success the extraction request is issued.
SetPathSettles(c, ok) ==
    /\ UNCHANGED <<segVars, gateVars, auxVars>>
    /\ c \in CallsAt("setpath")
    /\ IF ok
       THEN /\ calls' = (calls \ {c}) \cup {[c EXCEPT !.pc = "job"]}
            /\ requests' = requests \cup {[n |-> c.n, id |-> c.id]}
            /\ invoked' = invoked \cup
                   {DownloadCmd(c.n, c.id, closures[c.n], downloadSessionRef)}
            /\ UNCHANGED <<downloading, progress, toast>>
       ELSE /\ calls' = calls \ {c}
            /\ downloading' = FALSE
            /\ progress' = NoProgress
            /\ toast' = Toast("Failed to select folder", "error")
            /\ UNCHANGED <<requests, invoked>>
    /\ step' = Step("setpath", c.n, c.id, 0)
    /\ UNCHANGED <<now, videoMeta, url, downloadSessionRef, askForPath, nCalls, issued,
                   cancelled, closures>>

\* The toast of the try/catch around the extraction request.
JobToast(outcome) ==
    IF outcome.kind = "ok" THEN Toast("Download complete!", "success")
    ELSE IF outcome.err.isString /\ outcome.err.mentions
    THEN Toast("Download cancelled.", "info")
    ELSE Toast("Download failed", "error")

\* A settlement whose resets are skipped: no finally block.
JobSettlesNoFinally(c, outcome) ==
    /\ UNCHANGED <<segVars, gateVars, auxVars>>
    /\ c \in CallsAt("job")
    /\ outcome \in Outcomes(closures[c.n], c.id)
    /\ calls' = calls \ {c}
    /\ toast' = JobToast(outcome)
    /\ invoked' = IF outcome.kind = "ok"
                  THEN invoked \cup HistoryItems(c.n, c.id, closures[c.n], outcome.paths,
                                                 downloadSessionRef)
                  ELSE invoked
    /\ step' = [Step("jobSettled", c.n, c.id, 0) EXCEPT !.res = outcome]
    /\ UNCHANGED <<now, videoMeta, url, askForPath, nCalls, issued, requests, cancelled,
                   closures, downloading, downloadSessionRef, progress>>

\* The extraction request of a submission settles: try/catch/finally.
JobSettles(c, outcome) ==
    /\ UNCHANGED <<segVars, gateVars, auxVars>>
    /\ c \in CallsAt("job")
    /\ outcome \in Outcomes(closures[c.n], c.id)
    /\ calls' = calls \ {c}
    /\ toast' = JobToast(outcome)
    /\ invoked' = IF outcome.kind = "ok"
                  THEN invoked \cup HistoryItems(c.n, c.id, closures[c.n], outcome.paths,
                                                 downloadSessionRef)
                  ELSE invoked
    /\ downloading' = FALSE
    /\ downloadSessionRef' = 0
    /\ progress' = NoProgress
    /\ step' = [Step("jobSettled", c.n, c.id, 0) EXCEPT !.res = outcome]
    /\ UNCHANGED <<now, videoMeta, url, askForPath, nCalls, issued, requests, cancelled,
                   closures>>

\* cancel_download settles, with success or with an error.
CancelSettles(c, ok) ==
    /\ UNCHANGED <<segVars, gateVars, auxVars>>
    /\ c \in CallsAt("cancel")
    /\ calls' = calls \ {c}
    /\ toast' = IF ok THEN Toast("Download cancelled.", "info")
                ELSE Toast("Failed to cancel", "error")
    /\ downloading' = FALSE
    /\ downloadSessionRef' = 0
    /\ cancelled' = IF ok /\ (\E r \in requests : r.n = c.sess)
                    THEN cancelled \cup {c.sess} ELSE cancelled
    /\ step' = Step(IF ok THEN "cancelAck" ELSE "cancelFailed", c.sess, c.id, 0)
    /\ UNCHANGED <<now, videoMeta, url, progress, askForPath, nCalls, issued, requests,
                   closures, invoked>>

SessionNext ==
    \/ Tick
    \/ SetAskForPath
    \/ HandleDownload
    \/ \E r \in requests, pct \in Percents : DownloadProgress(r, pct)
    \/ \E c \in calls, result \in {"selected", "dismissed", "error"} : DialogSettles(c, result)
    \/ \E c \in calls, ok \in BOOLEAN : SetPathSettles(c, ok)
    \/ \E c \in calls : \E outcome \in Outcomes(closures[c.n], c.id) : JobSettles(c, outcome)
    \/ \E c \in calls, ok \in BOOLEAN : CancelSettles(c, ok)

\* ------------------------------------------------------------- segments
Min(a, b) == IF a < b THEN a ELSE b
Max(a, b) == IF a > b THEN a ELSE b

\* maxSegments of MultiClipTimeline.
MaxSegments == 5
\* The default window of a new segment, in seconds.
DefaultWindow == 10

Segment(id, start, end) == [id |-> id, start |-> start, end |-> end]

\* The values a range Slider (min 0, max duration, step 1) reports: both
\* handles inside the track, in order, and free to meet.
SliderValues(d) == {v \in (0..d) \X (0..d) : v[1] <= v[2]}
\* The drags of a segment slider the model tries: to the whole track, to an
\* inner range, and with both handles at the end of the track.
SegmentDrags(d) == {<<0, d>>, <<1, d - 1>>, <<d, d>>}

\* EditableTime.commitChanges: the typed minutes and seconds, normalised
\* and clamped to [0, max].
CommitChanges(m, sec, max) ==
    LET m1 == IF m < 0 THEN 0 ELSE m
        s1 == IF sec < 0 THEN 0 ELSE sec
        m2 == IF s1 > 59 THEN m1 + (s1 \div 60) ELSE m1
        s2 == IF s1 > 59 THEN s1 % 60 ELSE s1
        total == m2 * 60 + s2
        capped == IF total > max THEN max ELSE total
    IN  IF capped < 0 THEN 0 ELSE capped

\* Timeline: the onChange of the Start and of the End EditableTime.
StartChanged(newStart, r) == <<Max(0, Min(newStart, r[2] - 1)), r[2]>>
EndChanged(newEnd, r, duration) == <<r[1], Min(duration, Max(newEnd, r[1] + 1))>>

\* The largest end over the segments (the set is not empty).
MaxEnd(segs) ==
    CHOOSE e \in {segs[i].end : i \in 1..Len(segs)} :
        \A i \in 1..Len(segs) : segs[i].end <= e

\* addSegment with its length check off by one.
AddSegmentPastCap(segs, duration, pro, id) ==
    IF ~pro THEN segs
    ELSE IF Len(segs) > MaxSegments THEN segs
    ELSE LET lastEnd == IF Len(segs) > 0 THEN MaxEnd(segs) ELSE 0
             newStart == Min(lastEnd, duration - DefaultWindow)
             newEnd == Min(newStart + DefaultWindow, duration)
         IN  Append(segs, Segment(id, newStart, newEnd))

\* addSegment: the new SegmentSet.
AddSegmentResult(segs, duration, pro, id) ==
    IF ~pro THEN segs
    ELSE IF Len(segs) >= MaxSegments THEN segs
    ELSE LET lastEnd == IF Len(segs) > 0 THEN MaxEnd(segs) ELSE 0
             newStart == Min(lastEnd, duration - DefaultWindow)
             newEnd == Min(newStart + DefaultWindow, duration)
         IN  Append(segs, Segment(id, newStart, newEnd))

\* removeSegment: segments.filter(s => s.id !== id).
RemoveSegmentResult(segs, id) == SelectSeq(segs, LAMBDA sg : sg.id # id)

\* updateSegment: segments.map(s => s.id === id ? {...s, start, end} : s).
UpdateSegmentResult(segs, id, start, end) ==
    [i \in 1..Len(segs) |->
        IF segs[i].id = id THEN Segment(id, start, end) ELSE segs[i]]

\* A segment operation that changes the array it was given in place
\* (push, splice, assignment to an element): a holder of that array sees
\* the result.
HeldSegmentsInPlace(held, segs, result) == IF held = segs THEN result ELSE held

\* The array a handleDownload invocation holds, after a segment operation
\* has been given `segs` and has built `result`: spread, filter and map
\* build a new array and a new object for a changed segment, so the held
\* array is what it was.
HeldSegments(held, segs, result) == held

\* The renders held by the handleDownload invocations after a segment
\* operation has been given the current segments.
HeldRenders(result) ==
    [n \in DOMAIN closures |->
        [closures[n] EXCEPT !.segments = HeldSegments(@, segments, result)]]

\* Which timeline App renders.
MultiRendered == videoMeta.loaded /\ multiClipEnabled /\ isPro
TimelineRendered == videoMeta.loaded /\ ~MultiRendered

\* Timeline.handleSliderChange: the slider's values become the range.
TimelineSlider(v) ==
    /\ TimelineRendered
    /\ v \in SliderValues(videoMeta.duration)
    /\ range' = <<v[1], v[2]>>
    /\ step' = Step("slider", 0, 0, 0)
    /\ UNCHANGED <<auxVars, jobVars, toast, gateVars, isPro, multiClipEnabled, segments, nextSegId, nEdits, nRemoves>>

\* A typed start time is committed.
TimelineEditStart(m, sec) ==
    /\ TimelineRendered
    /\ range' = StartChanged(CommitChanges(m, sec, range[2]), range)
    /\ step' = Step("editStart", 0, 0, 0)
    /\ UNCHANGED <<auxVars, jobVars, toast, gateVars, isPro, multiClipEnabled, segments, nextSegId, nEdits, nRemoves>>

\* A typed end time is committed.
TimelineEditEnd(m, sec) ==
    /\ TimelineRendered
    /\ range' = EndChanged(CommitChanges(m, sec, videoMeta.duration), range,
                           videoMeta.duration)
    /\ step' = Step("editEnd", 0, 0, 0)
    /\ UNCHANGED <<auxVars, jobVars, toast, gateVars, isPro, multiClipEnabled, segments, nextSegId, nEdits, nRemoves>>

\* The Single Clip mode button.
SingleClipButton ==
    /\ videoMeta.loaded
    /\ multiClipEnabled' = FALSE
    /\ step' = Step("mode", 0, 0, 0)
    /\ UNCHANGED <<auxVars, jobVars, toast, gateVars, isPro, range, segments, nextSegId, nEdits, nRemoves>>

\* The Multi-Clip mode button.
MultiClipButton ==
    /\ videoMeta.loaded
    /\ step' = Step("mode", 0, 0, 0)
    /\ IF ~isPro
       THEN /\ toast' = Toast("Multi-Clip is a Pro feature", "info")
            /\ UNCHANGED <<multiClipEnabled, segments, nextSegId>>
       ELSE /\ multiClipEnabled' = TRUE
            /\ IF Len(segments) = 0
               THEN /\ nextSegId <= MaxSegIds
                    /\ segments' = <<Segment(nextSegId, range[1], range[2])>>
                    /\ nextSegId' = nextSegId + 1
               ELSE UNCHANGED <<segments, nextSegId>>
            /\ UNCHANGED toast
    /\ UNCHANGED <<auxVars, jobVars, gateVars, isPro, range, nEdits, nRemoves>>

\* The Add Clip button of MultiClipTimeline (disabled at maxSegments).
AddSegment ==
    /\ MultiRendered
    /\ nextSegId <= MaxSegIds
    /\ segments' = AddSegmentResult(segments, videoMeta.duration, isPro, nextSegId)
    /\ nextSegId' = IF segments' = segments THEN nextSegId ELSE nextSegId + 1
    /\ step' = Step("addSegment", Len(segments), 0, 0)
    /\ closures' = HeldRenders(segments')
    /\ UNCHANGED <<auxVars, flightVars, toast, gateVars, isPro, multiClipEnabled, range, nEdits, nRemoves>>

\* The remove button of a segment card.
RemoveSegment(i) ==
    /\ MultiRendered
    /\ i \in 1..Len(segments)
    /\ nRemoves < MaxRemoves
    /\ segments' = RemoveSegmentResult(segments, segments[i].id)
    /\ nRemoves' = nRemoves + 1
    /\ step' = Step("removeSegment", 0, 0, 0)
    /\ closures' = HeldRenders(segments')
    /\ UNCHANGED <<auxVars, flightVars, toast, gateVars, isPro, multiClipEnabled, range, nextSegId, nEdits>>

\* MultiClipTimeline.handleSliderChange: the slider of a segment card.
SegmentSlider(i, v) ==
    /\ MultiRendered
    /\ nEdits < MaxEdits
    /\ i \in 1..Len(segments)
    /\ v \in SegmentDrags(videoMeta.duration)
    /\ segments' = UpdateSegmentResult(segments, segments[i].id, v[1], v[2])
    /\ nEdits' = nEdits + 1
    /\ step' = Step("segmentSlider", 0, segments[i].id, 0)
    /\ closures' = HeldRenders(segments')
    /\ UNCHANGED <<auxVars, flightVars, toast, gateVars, isPro, multiClipEnabled, range, nextSegId, nRemoves>>

\* ProBadge.onProActivated: a license has been activated.
ProActivated ==
    /\ ~isPro
    /\ isPro' = TRUE
    /\ selectedQuality' = "Best"
    /\ step' = Step("license", 0, 0, 0)
    /\ UNCHANGED <<auxVars, jobVars, toast, isLocalFile, originalResolution, loading, fetches,
                   nFetches, preferredQuality, multiClipEnabled, range, segments,
                   nextSegId, nEdits, nRemoves>>

\* The account-sync effect, run after a change of user or isPro: the
\* syncLock after it. The lock is held while verify_license is in flight.
SyncLockAfterEffect(u, pro, lock) == lock \/ (u = "keyed" /\ ~pro)

\* handleLogout after logout() and clear_license have settled.
LogoutCompleted ==
    /\ isPro' = FALSE
    /\ toast' = Toast("Logged out successfully", "success")
    /\ step' = Step("license", 0, 0, 0)
    /\ logoutPc' = "idle"
    /\ syncLock' = IF isPro THEN SyncLockAfterEffect(user, FALSE, syncLock) ELSE syncLock
    /\ UNCHANGED <<latestSource, user, jobVars, gateVars, multiClipEnabled, range, segments, nextSegId, nEdits, nRemoves>>

TimelineNext ==
    \/ \E v \in SliderValues(videoMeta.duration) : TimelineSlider(v)
    \/ \E m \in 0..MaxTypedMins, sec \in 0..MaxTypedSecs : TimelineEditStart(m, sec)
    \/ \E m \in 0..MaxTypedMins, sec \in 0..MaxTypedSecs : TimelineEditEnd(m, sec)

SegNext ==
    \/ SingleClipButton
    \/ MultiClipButton
    \/ AddSegment
    \/ \E i \in 1..MaxSegments : RemoveSegment(i)
    \/ \E i \in 1..MaxSegments, v \in SegmentDrags(videoMeta.duration) : SegmentSlider(i, v)
    \/ ProActivated
    \/ LogoutCompleted

\* After a source of some duration has been loaded, for a free or a Pro user.
SegInit ==
    \E d \in Durations, pro \in BOOLEAN :
        /\ now = 1
        /\ videoMeta = Meta(d, <<"1080p", "720p", "480p">>)
        /\ url = "u1"
        /\ downloading = FALSE
        /\ progress = NoProgress
        /\ downloadSessionRef = 0
        /\ askForPath = FALSE
        /\ toast = NoToast
        /\ calls = {}
        /\ nCalls = 0
        /\ issued = <<>>
        /\ requests = {}
        /\ cancelled = {}
        /\ closures = <<>>
        /\ invoked = {}
        /\ step = NoStep
        /\ isPro = pro
        /\ multiClipEnabled = FALSE
        /\ range = <<0, d>>
        /\ segments = <<>>
        /\ nextSegId = 1
        /\ nEdits = 0
        /\ nRemoves = 0
        /\ selectedQuality = IF pro THEN "1080p" ELSE "720p"
        /\ isLocalFile = FALSE
        /\ originalResolution = ""
        /\ loading = FALSE
        /\ fetches = {}
        /\ nFetches = 0
        /\ preferredQuality = ""
        /\ latestSource = ""
        /\ user = "none"
        /\ syncLock = FALSE
        /\ logoutPc = "idle"

SegSpec == SegInit /\ [][SegNext]_vars

\* The Timeline of single-clip mode alone.
TimelineSpec == SegInit /\ [][TimelineNext]_vars

\* ------------------------------------------------------------- quality gate
FREE_QUALITIES == {"720p", "480p", "Audio Only"}

\* The sources of the model: what get_video_metadata returns for each.
Sources ==
    { [url |-> "u1", local |-> FALSE, duration |-> 12,
       formats |-> <<"Best", "4K", "1080p", "720p", "480p", "Audio Only">>],
      [url |-> "f1", local |-> TRUE, duration |-> 12,
       formats |-> <<"1080p", "720p", "480p">>],
      [url |-> "f2", local |-> TRUE, duration |-> 3,
       formats |-> <<"720p", "480p">>],
      [url |-> "f3", local |-> TRUE, duration |-> 12,
       formats |-> <<"Best", "1080p", "720p">>] }

Labels == UNION {{src.formats[i] : i \in 1..Len(src.formats)} : src \in Sources}

\* The formats offered by a metadata record, as a set.
Offered(meta) == {meta.formats[i] : i \in 1..Len(meta.formats)}

\* A gate that locks the Pro-only labels for every user.
LockedForAll(fmt, pro, local, orig) ==
    fmt \notin FREE_QUALITIES \/ (local /\ ~pro /\ fmt # orig /\ fmt # "Best")

\* The `locked` of a quality option.
Locked(fmt, pro, local, orig) ==
    LET isProOnly == fmt \notin FREE_QUALITIES
        isTranscoding ==
            /\ local
            /\ fmt # (IF orig # "" THEN orig ELSE "Best")
            /\ fmt # "Best"
    IN  (~pro /\ isProOnly) \/ (local /\ ~pro /\ isTranscoding)

\* The quality gate: an option that is not locked can be selected.
IsAllowed(fmt) == ~Locked(fmt, isPro, isLocalFile, originalResolution)

\* meta.formats.find(q => FREE_QUALITIES.includes(q)) || '720p'
FirstFree(fmts) ==
    LET hits == {i \in 1..Len(fmts) : fmts[i] \in FREE_QUALITIES}
    IN  IF hits = {} THEN "720p"
        ELSE fmts[CHOOSE i \in hits : \A j \in hits : i <= j]

\* handleUrlSubmit up to its await.
HandleUrlSubmit(src, isLocal) ==
    /\ nFetches < MaxFetches
    /\ loading' = TRUE
    /\ toast' = Toast(IF isLocal THEN "Analyzing file..." ELSE "Fetching video metadata...",
                      "info")
    /\ videoMeta' = NoMeta
    /\ isLocalFile' = isLocal
    /\ originalResolution' = ""
    /\ nFetches' = nFetches + 1
    /\ latestSource' = src.url
    /\ UNCHANGED <<user, syncLock, logoutPc>>
    /\ fetches' = fetches \cup
           {[n |-> nFetches + 1, src |-> src, local |-> isLocal, pro |-> isPro]}
    /\ step' = Step("urlSubmit", nFetches + 1, 0, 0)
    /\ UNCHANGED <<now, downloading, progress, downloadSessionRef, askForPath,
                   calls, nCalls, issued, requests, cancelled, closures, invoked, segVars,
                   selectedQuality, preferredQuality>>

\* The form of UrlInput (disabled while loading).
UrlSubmit(src) ==
    /\ ~loading
    /\ ~src.local
    /\ HandleUrlSubmit(src, FALSE)
    /\ UNCHANGED url

\* onClipboardUrl: the clipboard monitor (a Pro feature) has detected a URL.
ClipboardUrl(src) ==
    /\ isPro
    /\ ~src.local
    /\ url' = src.url
    /\ HandleUrlSubmit(src, FALSE)

\* handleFileSelect: a dropped or picked local file.
FileSelect(src) ==
    /\ src.local
    /\ HandleUrlSubmit(src, TRUE)
    /\ UNCHANGED url

\* get_video_metadata settles: the rest of handleUrlSubmit.
FetchSettles(f, ok) ==
    /\ f \in fetches
    /\ fetches' = fetches \ {f}
    /\ loading' = FALSE
    /\ step' = [Step("fetchSettled", f.n, 0, 0) EXCEPT
                    !.res = Outcome(IF ok THEN "ok" ELSE "failed", NoError, <<>>)]
    /\ IF ok
       THEN /\ videoMeta' = Meta(f.src.duration, f.src.formats)
            /\ range' = <<0, f.src.duration>>
            /\ url' = f.src.url
            /\ toast' = NoToast
            /\ originalResolution' =
                   IF Len(f.src.formats) > 0 /\ f.local
                   THEN f.src.formats[1] ELSE originalResolution
            /\ selectedQuality' =
                   IF Len(f.src.formats) > 0
                   THEN (IF f.pro THEN f.src.formats[1] ELSE FirstFree(f.src.formats))
                   ELSE selectedQuality
       ELSE /\ toast' = Toast("Error fetching video info", "error")
            /\ UNCHANGED <<videoMeta, range, url, originalResolution, selectedQuality>>
    /\ UNCHANGED <<now, downloading, progress, downloadSessionRef, askForPath, calls,
                   nCalls, issued, requests, cancelled, closures, invoked, isPro,
                   multiClipEnabled,
                   segments, nextSegId, nEdits, nRemoves, isLocalFile, nFetches,
                   preferredQuality, auxVars>>

\* The quality <select>: the user picks an option that is not disabled.
QualitySelect(fmt) ==
    /\ videoMeta.loaded
    /\ ~downloading
    /\ fmt \in Offered(videoMeta)
    /\ IsAllowed(fmt)
    /\ selectedQuality' = fmt
    /\ step' = Step("qualitySelect", 0, 0, 0)
    /\ UNCHANGED <<auxVars, jobVars, toast, segVars, isLocalFile, originalResolution, loading,
                   fetches, nFetches, preferredQuality>>

\* The options of the default-quality select of the settings the model tries.
PreferredChoices == {"Best", "1080p", "480p"}

\* onLicenseChange once get_license_status has resolved with is_pro = pro.
LicenseChanged(pro) ==
    /\ isPro' = pro
    /\ selectedQuality' =
           IF pro THEN (IF preferredQuality # "" THEN preferredQuality ELSE "Best")
           ELSE "720p"
    /\ step' = Step("license", 0, 0, 0)
    /\ UNCHANGED <<auxVars, jobVars, toast, isLocalFile, originalResolution, loading, fetches,
                   nFetches, preferredQuality, multiClipEnabled, range, segments,
                   nextSegId, nEdits, nRemoves>>

\* The default-quality select of the settings (enabled for Pro users) and
\* onPreferredQualityChange.
PreferredQualityChange(quality) ==
    /\ isPro
    /\ quality \in PreferredChoices
    /\ preferredQuality' = quality
    /\ selectedQuality' = quality
    /\ step' = Step("preferredQuality", 0, 0, 0)
    /\ UNCHANGED <<auxVars, jobVars, toast, segVars, isLocalFile, originalResolution, loading,
                   fetches, nFetches>>

GateNext ==
    \/ \E src \in Sources : UrlSubmit(src)
    \/ \E src \in Sources : ClipboardUrl(src)
    \/ \E src \in Sources : FileSelect(src)
    \/ \E f \in fetches, ok \in BOOLEAN : FetchSettles(f, ok)
    \/ \E fmt \in Labels : QualitySelect(fmt)
    \/ ProActivated
    \/ LogoutCompleted

\* The App after startup, no source submitted yet, for a free or a Pro user.
GateInit ==
    \E pro \in BOOLEAN :
        /\ now = 1
        /\ videoMeta = NoMeta
        /\ url = ""
        /\ downloading = FALSE
        /\ progress = NoProgress
        /\ downloadSessionRef = 0
        /\ askForPath = FALSE
        /\ toast = NoToast
        /\ calls = {}
        /\ nCalls = 0
        /\ issued = <<>>
        /\ requests = {}
        /\ cancelled = {}
        /\ closures = <<>>
        /\ invoked = {}
        /\ step = NoStep
        /\ isPro = pro
        /\ multiClipEnabled = FALSE
        /\ range = <<0, 0>>
        /\ segments = <<>>
        /\ nextSegId = 1
        /\ nEdits = 0
        /\ nRemoves = 0
        /\ selectedQuality = IF pro THEN "Best" ELSE "720p"
        /\ isLocalFile = FALSE
        /\ originalResolution = ""
        /\ loading = FALSE
        /\ fetches = {}
        /\ nFetches = 0
        /\ preferredQuality = ""
        /\ latestSource = ""
        /\ user = "none"
        /\ syncLock = FALSE
        /\ logoutPc = "idle"

GateSpec == GateInit /\ [][GateNext]_vars

\* The sources submitted together with licence changes: the hosted source
\* and the local file with a native label outside the free tier.
EntitlementSources == {src \in Sources : src.url \in {"u1", "f1"}}

\* The quality gate together with the licence changes and the Download button.
EntitlementNext ==
    \/ \E src \in EntitlementSources : UrlSubmit(src)
    \/ \E src \in EntitlementSources : FileSelect(src)
    \/ \E f \in fetches, ok \in BOOLEAN : FetchSettles(f, ok)
    \/ \E fmt \in Labels : QualitySelect(fmt)
    \/ ProActivated
    \/ LogoutCompleted
    \/ \E pro \in BOOLEAN : LicenseChanged(pro)
    \/ \E quality \in PreferredChoices : PreferredQualityChange(quality)
    \/ HandleDownload

EntitlementSpec == GateInit /\ [][EntitlementNext]_vars

\* ------------------------------------------------------ session claims
\* Submissions that have not returned: at the dialog, at set_download_path,
\* or with their extraction request outstanding at the engine.
ActiveSessions == {c \in calls : c.pc \in {"dialog", "setpath", "job"}}

\* C1: a 'download-progress' event replaces the progress snapshot with its
\* payload exactly when its id is the current session id; any other event
\* leaves progress unchanged, and no event changes the downloading flag or
\* the session id.
C1_ProgressFilter ==
    [][step'.op = "progress" =>
          /\ (step'.id = downloadSessionRef =>
                 progress' = [some |-> TRUE, id |-> step'.id, percent |-> step'.pct])
          /\ (step'.id # downloadSessionRef => progress' = progress)
          /\ downloading' = downloading
          /\ downloadSessionRef' = downloadSessionRef]_vars

\* An event of another session has just been dropped while the current
\* session shows a snapshot of its own that an earlier event delivered.
C1_Witness ==
    /\ step.op = "progress"
    /\ downloadSessionRef # 0
    /\ step.id # downloadSessionRef
    /\ progress = [some |-> TRUE, id |-> downloadSessionRef, percent |-> 50]

\* C2: at most one extraction request is outstanding at the engine.
C2_SingleFlight == Cardinality(CallsAt("job")) <= 1

\* C3: while a session is Submitting or Running, no step generates a new
\* session id or issues the extraction request of a new session.
C3_SubmitRejectedWhileActive ==
    [][ActiveSessions # {} =>
          /\ issued' = issued
          /\ \A r \in requests' \ requests : \E c \in ActiveSessions : c.n = r.n]_vars

\* The latest submission is current: it has not returned, the session id is
\* its id and the downloading flag is set.
LatestIsCurrent ==
    \E c \in ActiveSessions :
        c.n = LastSubmit /\ downloadSessionRef = c.id /\ downloading

\* C4: once a newer session is current, a progress event, a terminal result
\* or a cancel acknowledgement of an earlier session (one that carries
\* another id than the current session) changes neither the session id, nor
\* the downloading flag, nor the progress snapshot.
C4_StaleNotificationsIgnored ==
    [][(/\ step'.op \in {"progress", "jobSettled", "cancelAck", "cancelFailed"}
        /\ LatestIsCurrent
        /\ step'.n < LastSubmit
        /\ step'.id # downloadSessionRef)
       => UNCHANGED <<downloadSessionRef, downloading, progress>>]_vars

\* C5: when the engine acknowledges a cancel the session id becomes 0, and a
\* later progress event of a session whose cancel was acknowledged changes
\* no visible state.
C5_CancelledSessionStaysSilent ==
    [][/\ (step'.op = "cancelAck" => downloadSessionRef' = 0)
       /\ (step'.op = "progress" /\ step'.n \in cancelled
              => UNCHANGED <<progress, downloading, downloadSessionRef, toast>>)]_vars

\* C6: every session id is not 0 and is strictly greater than every session
\* id issued before it.
C6_SessionIdsIncrease ==
    \A i \in 1..Len(issued) :
        /\ issued[i].id # 0
        /\ \A j \in 1..(i - 1) : issued[j].id < issued[i].id

\* ------------------------------------- segment and quality gate claims
ValidRange(start, end, duration) == 0 <= start /\ start < end /\ end <= duration

\* C7: after an edit of a clip range (a slider drag or a committed typed
\* time of the Timeline, a drag of a segment slider) the edited range
\* satisfies 0 <= start < end <= duration; a start edited to a negative
\* value becomes 0 and an end edited beyond the duration becomes the
\* duration.
C7_EditsKeepRangeValid ==
    /\ step.op \in {"slider", "editStart", "editEnd"}
           => ValidRange(range[1], range[2], videoMeta.duration)
    /\ step.op = "segmentSlider"
           => \A i \in 1..Len(segments) :
                  segments[i].id = step.id
                      => ValidRange(segments[i].start, segments[i].end, videoMeta.duration)
    /\ \A x \in 1..5 :
           /\ StartChanged(0 - x, range)[1] = 0
           /\ EndChanged(videoMeta.duration + x, range, videoMeta.duration)[2]
                  = videoMeta.duration

\* C8: the SegmentSet never holds more than 5 segments; an add at 5
\* segments leaves the set unchanged, and so does an add for a user who is
\* not Pro.
C8_AtMostFiveSegments ==
    /\ [](Len(segments) <= MaxSegments)
    /\ [](AddSegmentResult(segments, videoMeta.duration, FALSE, nextSegId) = segments)
    /\ [][(step'.op = "addSegment" /\ (Len(segments) >= MaxSegments \/ ~isPro))
              => segments' = segments]_vars

\* Add Clip has just been pressed with 5 segments in the set, and 5 remain.
C8_Witness ==
    /\ step.op = "addSegment"
    /\ step.n = MaxSegments
    /\ Len(segments) = MaxSegments

C10_LocalFreeKeepsOriginal ==
    (videoMeta.loaded /\ isLocalFile /\ ~isPro /\ originalResolution # "")
        => /\ IsAllowed(originalResolution)
           /\ \A fmt \in Offered(videoMeta) \ {originalResolution} : ~IsAllowed(fmt)

Init == SessionInit
Next == SessionNext
Spec == Init /\ [][Next]_vars

\* ------------------------------------------- session claims, continued
\* C14: a job that ends because it was cancelled is never reported with an
\* error toast, and a job that ends with another engine failure is always
\* reported with an error toast, whatever the error value looks like.
C14_CancelIsNotFailure ==
    step.op = "jobSettled" =>
        /\ (step.res.kind = "cancelled" => toast.type # "error")
        /\ (step.res.kind = "failed" => toast.type = "error")

\* C15: when no job is active (downloading is false and no submission is
\* in progress) the current session id is 0.
C15_IdleHasNoSession ==
    (~downloading /\ ActiveSessions = {}) => downloadSessionRef = 0

\* The settlements of an extraction request whose error value tells the
\* kind: a success, a string that mentions 'cancelled' for a cancellation,
\* and a string that does not for any other failure.
TaggedOutcomes(cl, id) ==
    {o \in Outcomes(cl, id) :
        \/ o.kind = "ok"
        \/ o.err.isString /\ (o.err.mentions <=> o.kind = "cancelled")}

\* The engine settles every extraction request it has received.
EngineSettles ==
    \A n \in 1..MaxCalls :
        WF_vars(\E c \in calls : \E outcome \in TaggedOutcomes(closures[c.n], c.id) :
                    c.n = n /\ JobSettles(c, outcome))

\* The steps of handleDownload and the settlements of its engine calls,
\* with the clock standing still.
LiveNext ==
    \/ SetAskForPath
    \/ HandleDownload
    \/ \E c \in calls, result \in {"selected", "dismissed", "error"} : DialogSettles(c, result)
    \/ \E c \in calls, ok \in BOOLEAN : SetPathSettles(c, ok)
    \/ \E c \in calls : \E outcome \in TaggedOutcomes(closures[c.n], c.id) :
           JobSettles(c, outcome)
    \/ \E c \in calls, ok \in BOOLEAN : CancelSettles(c, ok)

LiveSpec == Init /\ [][LiveNext]_vars /\ EngineSettles

\* C16: every submission whose extraction request has reached the engine
\* leads to the settlement of that request, and with it downloading is
\* false, the session id is 0 and the progress snapshot is none.
C16_SettledJobReturnsToIdle ==
    \A n \in 1..MaxCalls :
        (\E c \in CallsAt("job") : c.n = n)
            ~> (/\ step.op = "jobSettled"
                /\ step.n = n
                /\ ~downloading
                /\ downloadSessionRef = 0
                /\ progress = NoProgress)

\* The extraction request of a submission has failed and the manager is
\* idle again.
C16_Witness ==
    /\ step.op = "jobSettled"
    /\ step.res.kind = "failed"
    /\ ~downloading
    /\ downloadSessionRef = 0
    /\ progress = NoProgress

\* C17: every cancel request carries a session id, the one that is current
\* when the request is sent.
C17_CancelCarriesSessionId ==
    \A q \in invoked :
        q.cmd = "cancel_download" =>
            /\ "id" \in DOMAIN q.args
            /\ q.args.id = q.at

\* C18: a cancel request is sent only while the extraction request of the
\* current session is outstanding, and never while another cancel of the
\* same session is pending.
C18_CancelOnlyWhileRunning ==
    step.op = "cancel" =>
        /\ \E c \in CallsAt("job") : c.n = LastSubmit /\ c.id = downloadSessionRef
        /\ Cardinality({c \in CallsAt("cancel") : c.sess = LastSubmit}) <= 1

\* C19: once a cancel has been requested, the manager leaves the active
\* state only with the acknowledgement of the cancel or the terminal result
\* of the job; a cancel request that fails leaves the downloading flag and
\* the session id as they are.
C19_CancelFailureKeepsSession ==
    [][/\ (step'.op = "cancelFailed"
              => UNCHANGED <<downloading, downloadSessionRef>>)
       /\ ((CallsAt("cancel") # {} /\ downloading /\ ~downloading')
              => step'.op \in {"cancelAck", "jobSettled"})]_vars

\* ------------------------------------- entitlement and history claims
\* C11: every extraction request carries a quality label that the quality
\* gate allows for the entitlement and the source kind of the render in
\* which the submission was made.
C11_RequestsPassTheGate ==
    \A q \in invoked :
        q.cmd \in {"download_clip", "download_multi_clip"} =>
            ~Locked(q.args.quality, closures[q.n].pro, closures[q.n].local,
                    closures[q.n].orig)

\* The Download button, pressed a bounded number of times.
HistoryDownload == nCalls < MaxHistoryCalls /\ HandleDownload

\* Adding segments, dragging the slider of the first segment, the Download
\* button and the settlement of the job.
HistoryNext ==
    \/ MultiClipButton
    \/ AddSegment
    \/ \E v \in SegmentDrags(videoMeta.duration) : SegmentSlider(1, v)
    \/ HistoryDownload
    \/ \E c \in calls : \E outcome \in TaggedOutcomes(closures[c.n], c.id) :
           JobSettles(c, outcome)

\* A source longer than the default segment window has been loaded.
HistoryInit == SegInit /\ videoMeta.duration > DefaultWindow

HistorySpec == HistoryInit /\ [][HistoryNext]_vars

\* The history items saved by handleDownload invocation n.
HistoryOf(n) == {h \in invoked : h.cmd = "save_download_history" /\ h.n = n}

\* C12: a successful multi-clip job saves one history item per segment it
\* was submitted with, in segment order, each with the url of the request
\* and item i with the duration end - start of segment i of the request.
C12_MultiClipHistory ==
    \A q \in invoked :
        q.cmd = "download_multi_clip" =>
            /\ (step.op = "jobSettled" /\ step.n = q.n /\ step.res.kind = "ok")
                   => HistoryOf(q.n) # {}
            /\ HistoryOf(q.n) # {} =>
                   /\ Cardinality(HistoryOf(q.n)) = Len(q.args.segments)
                   /\ \A i \in 1..Len(q.args.segments) :
                          \E h \in HistoryOf(q.n) :
                              /\ h.i = i
                              /\ h.args.url = q.args.url
                              /\ h.args.duration =
                                     q.args.segments[i].end - q.args.segments[i].start

\* A job submitted with 3 segments has succeeded after one of the segments
\* was edited while it ran, and 3 history items have been saved.
C12_Witness ==
    /\ step.op = "jobSettled"
    /\ step.res.kind = "ok"
    /\ Cardinality(HistoryOf(step.n)) = 3
    /\ \E q \in invoked :
           /\ q.cmd = "download_multi_clip"
           /\ q.n = step.n
           /\ Len(q.args.segments) = 3
           /\ q.args.segments # segments

\* C13: a successful job saves exactly one history item per output path the
\* engine returns, item i holding path i.
C13_OneEntryPerOutputFile ==
    (step.op = "jobSettled" /\ step.res.kind = "ok") =>
        /\ Cardinality(HistoryOf(step.n)) = Len(step.res.paths)
        /\ \A i \in 1..Len(step.res.paths) :
               \E h \in HistoryOf(step.n) :
                   h.i = i /\ h.args.filePath = step.res.paths[i]

\* C20: while a metadata fetch is in flight the visible metadata is none.
C20_NoMetadataWhileFetching ==
    fetches # {} => videoMeta = NoMeta

\* ------------------------------------------- source resolution claims
\* The source of the model with a given url.
SourceOf(u) == CHOOSE src \in Sources : src.url = u

\* C21: after a metadata resolution has failed the visible metadata is none,
\* an error toast is shown, the loading flag is cleared and handleDownload
\* cannot start a job.
C21_FailedFetchLeavesNothing ==
    (step.op = "fetchSettled" /\ step.res.kind = "failed") =>
        /\ videoMeta = NoMeta
        /\ toast.type = "error"
        /\ ~loading
        /\ ~(videoMeta.loaded /\ url # "")

\* C22: once every metadata fetch has settled, metadata that is displayed
\* is the metadata of the source submitted last, and so is the url.
C22_LatestSourceWins ==
    (fetches = {} /\ videoMeta.loaded) =>
        /\ url = latestSource
        /\ videoMeta = Meta(SourceOf(latestSource).duration, SourceOf(latestSource).formats)

\* C28: whenever metadata is displayed, isLocalFile tells whether the
\* displayed source was submitted as a local file, and originalResolution
\* is set only for a local file.
C28_GateInputsMatchSource ==
    videoMeta.loaded =>
        /\ isLocalFile <=> SourceOf(url).local
        /\ originalResolution # "" => SourceOf(url).local

\* C29: whenever metadata is displayed and handleDownload can start a job,
\* selectedQuality is one of the labels the metadata offers.
C29_SelectedQualityOffered ==
    (videoMeta.loaded /\ url # "") => selectedQuality \in Offered(videoMeta)

\* ------------------------------------------------- segment set claims
\* C24: an accepted add appends a segment that starts at the maximum end
\* over the existing segments (0 when there are none), ends at
\* min(start + 10, duration) and satisfies 0 <= start < end <= duration.
C24_AddAppendsWindow ==
    [][(step'.op = "addSegment" /\ Len(segments') = Len(segments) + 1) =>
          LET new == segments'[Len(segments')]
              d == videoMeta.duration
          IN  /\ new.start = (IF Len(segments) > 0 THEN MaxEnd(segments) ELSE 0)
              /\ new.end = Min(new.start + DefaultWindow, d)
              /\ ValidRange(new.start, new.end, d)]_vars

\* The mode buttons, the segment operations and the Download button.
ModeNext ==
    \/ SingleClipButton
    \/ MultiClipButton
    \/ AddSegment
    \/ \E i \in 1..MaxSegments : RemoveSegment(i)
    \/ \E v \in SegmentDrags(videoMeta.duration) : SegmentSlider(1, v)
    \/ HistoryDownload

\* A source has been loaded by a Pro user.
ModeInit == SegInit /\ isPro

ModeSpec == ModeInit /\ [][ModeNext]_vars

C26_MultiModeIssuesMultiRequest ==
    \A q \in invoked :
        (q.cmd \in {"download_clip", "download_multi_clip"}
             /\ closures[q.n].multi /\ closures[q.n].pro) =>
            /\ q.cmd = "download_multi_clip"
            /\ q.args.segments = closures[q.n].segments

\* Multi-clip segments together with the loading of another source and the
\* Download button.
ReloadNext ==
    \/ MultiClipButton
    \/ AddSegment
    \/ \E src \in Sources : UrlSubmit(src)
    \/ \E src \in Sources : FileSelect(src)
    \/ \E f \in fetches, ok \in BOOLEAN : FetchSettles(f, ok)
    \/ HistoryDownload

ReloadSpec == ModeInit /\ [][ReloadNext]_vars

\* C27: whenever metadata is displayed, every segment of the SegmentSet
\* ends within the duration of the displayed source, and so does every
\* segment of a multi-clip request submitted for it.
C27_SegmentsWithinDuration ==
    videoMeta.loaded =>
        /\ \A i \in 1..Len(segments) : segments[i].end <= videoMeta.duration
        /\ \A q \in invoked :
               (q.cmd = "download_multi_clip" /\ q.args.url = url) =>
                   \A i \in 1..Len(q.args.segments) :
                       q.args.segments[i].end <= videoMeta.duration

\* ------------------------------------------------- submission snapshot
\* The first submission, with or without the folder dialog (a setting
\* chosen before it), and its settlement, together with the edits a user
\* can make meanwhile: the timeline range, a segment, the mode, another
\* source, a licence activation.
SnapshotNext ==
    \/ nCalls = 0 /\ SetAskForPath
    \/ nCalls = 0 /\ HandleDownload
    \/ \E c \in calls, result \in {"selected", "dismissed", "error"} : DialogSettles(c, result)
    \/ \E c \in calls, ok \in BOOLEAN : SetPathSettles(c, ok)
    \/ \E c \in calls : \E outcome \in TaggedOutcomes(closures[c.n], c.id) :
           JobSettles(c, outcome)
    \/ \E v \in SegmentDrags(videoMeta.duration) : TimelineSlider(v)
    \/ MultiClipButton
    \/ \E v \in SegmentDrags(videoMeta.duration) : SegmentSlider(1, v)
    \/ \E src \in EntitlementSources : nFetches = 0 /\ FileSelect(src)
    \/ \E f \in fetches, ok \in BOOLEAN : FetchSettles(f, ok)
    \/ ProActivated

SnapshotSpec == HistoryInit /\ [][SnapshotNext]_vars

\* C23: every extraction request and every history item carries the url,
\* the range or the segments, and the quality that were displayed when its
\* handleDownload was invoked, whatever has been edited since.
C23_RequestIsSubmissionSnapshot ==
    \A q \in invoked :
        q.cmd \in {"download_clip", "download_multi_clip", "save_download_history"} =>
            LET cl == closures[q.n]
            IN  /\ q.args.url = cl.url
                /\ q.args.quality = cl.quality
                /\ q.cmd = "download_multi_clip" => q.args.segments = cl.segments
                /\ q.cmd = "download_clip" =>
                       q.args.start = cl.range[1] /\ q.args.end = cl.range[2]
                /\ q.cmd = "save_download_history" =>
                       q.args.duration =
                           IF IsMulti(cl)
                           THEN cl.segments[q.i].end - cl.segments[q.i].start
                           ELSE cl.range[2] - cl.range[1]

\* The extraction request of a submission has been issued after the folder
\* dialog, and the range, the segments, the source or the quality were
\* changed while the dialog was open.
C23_Witness ==
    /\ step.op = "setpath"
    /\ \E q \in invoked :
           /\ q.cmd \in {"download_clip", "download_multi_clip"}
           /\ q.n = step.n
           /\ \/ closures[q.n].range # range
              \/ closures[q.n].segments # segments
              \/ closures[q.n].url # url
              \/ closures[q.n].quality # selectedQuality

\* ------------------------------------------------------------ account
\* checkSession or a login has set a user whose prefs hold a licence key;
\* the account-sync effect runs on the change of user.
Login ==
    /\ user = "none"
    /\ logoutPc = "idle"
    /\ user' = "keyed"
    /\ syncLock' = SyncLockAfterEffect("keyed", isPro, syncLock)
    /\ step' = Step("login", 0, 0, 0)
    /\ UNCHANGED <<latestSource, logoutPc, jobVars, toast, segVars, gateVars>>

\* verify_license of the account-sync effect settles: valid, invalid, or
\* rejected.
VerifySettles(result) ==
    /\ syncLock
    /\ syncLock' = FALSE
    /\ IF result = "valid"
       THEN /\ isPro' = TRUE
            /\ toast' = Toast("License synced from account!", "success")
       ELSE UNCHANGED <<isPro, toast>>
    /\ step' = Step("licenseSync", 0, 0, 0)
    /\ UNCHANGED <<latestSource, user, logoutPc, jobVars, gateVars, multiClipEnabled, range,
                   segments, nextSegId, nEdits, nRemoves>>

\* handleLogout up to its first await: logout() of the AuthContext.
LogoutStart ==
    /\ user # "none"
    /\ logoutPc = "idle"
    /\ logoutPc' = "deleting"
    /\ step' = Step("logoutStart", 0, 0, 0)
    /\ UNCHANGED <<latestSource, user, syncLock, jobVars, toast, segVars, gateVars>>

\* account.deleteSession settles: on success the user is cleared, a failure
\* is logged inside logout(); either way handleLogout goes on to
\* clear_license.
SessionDeleteSettles(ok) ==
    /\ logoutPc = "deleting"
    /\ user' = IF ok THEN "none" ELSE user
    /\ logoutPc' = "clearing"
    /\ step' = Step("sessionDeleted", 0, 0, 0)
    /\ UNCHANGED <<latestSource, syncLock, jobVars, toast, segVars, gateVars>>

\* clear_license settles with success: the rest of handleLogout.
ClearLicenseSettles ==
    /\ logoutPc = "clearing"
    /\ LogoutCompleted

\* clear_license is rejected: the catch of handleLogout.
ClearLicenseFails ==
    /\ logoutPc = "clearing"
    /\ logoutPc' = "idle"
    /\ toast' = Toast("Error logging out", "error")
    /\ step' = Step("logoutFailed", 0, 0, 0)
    /\ UNCHANGED <<latestSource, user, syncLock, jobVars, segVars, gateVars>>

\* The account of the user together with the licence changes.
AccountNext ==
    \/ Login
    \/ \E result \in {"valid", "invalid", "error"} : VerifySettles(result)
    \/ LogoutStart
    \/ \E ok \in BOOLEAN : SessionDeleteSettles(ok)
    \/ ClearLicenseSettles
    \/ ClearLicenseFails
    \/ ProActivated
    \/ \E quality \in PreferredChoices : PreferredQualityChange(quality)

AccountSpec == GateInit /\ [][AccountNext]_vars

\* C30: once a logout has completed (no user, handleLogout returned, isPro
\* false), isPro becomes true only by an activation of a licence by the
\* user, never by a verification of the account-sync effect.
C30_LoggedOutStaysFree ==
    [][(user = "none" /\ logoutPc = "idle" /\ ~isPro /\ isPro') =>
          step'.op = "license"]_vars

====
